---- MODULE Spec2Model ----
(***************************************************************************)
(* Model of src/python/netbird-switched.py: the NetBird environment        *)
(* switcher.  The foreground (Qt main) thread owns the registry, the       *)
(* selection, the active marker, the enabled flag of the buttons and the   *)
(* status pill.  Every connection action runs in a worker thread started   *)
(* by MainWindow._run_bg; a worker talks to the foreground thread only by  *)
(* signals of the UIBus, which Qt delivers to the main thread in order.    *)
(* An external command (run_cmd, Popen) is a blocking call whose result    *)
(* the program does not control: each one is a step whose outcome is       *)
(* chosen nondeterministically.                                            *)
(***************************************************************************)
EXTENDS Integers, Sequences, FiniteSets, TLC

\* ---------------------------------------------------------------- bounds
\* Number of worker threads that can exist at once in SpecConcurrent, and in
\* Spec.
MaxWorkers == 2
SpecWorkers == 1
\* Number of signals that can wait in the main thread's event queue.
MaxQueue == 3
\* Number of records the registry can hold.
MaxEnvs == 2
\* Confirmation polls of a connect in Spec and SpecConcurrent (the window of
\* the source, PollWindow, is used by SpecWindow).
PollBound == 2
\* Sleeps of the teardown poll loop of a connect in Spec and SpecConcurrent
\* (the source's max_wait, MaxWaitTenths, is used by SpecWindow).
TeardownBound == 1
\* Number of stream reader threads that can exist at once, and the number of
\* xdg-open calls counted for one stream.
MaxPumps == 1
MaxOpens == 2

\* ------------------------------------------------------ program constants
\* for _ in range(180): one status poll per second.
PollWindow == 180
\* _ensure_down_quick(max_wait=2.0, step=0.2), in tenths of a second.
MaxWaitTenths == 20
StepTenths == 2
\* networks_select_all: range(0, len(ids), 15).
BatchSize == 15

\* ------------------------------------------------------------- value sets
NoName == "None"
Names == {"a", "A", "b"}
Urls == {"u1", "u2"}
\* str.lower() on the names of the model.
Lower(n) == IF n = "A" THEN "a" ELSE n

Slots == 1..MaxWorkers
\* Outcome of `netbird status -d` as the callers read it: the command failed
\* (rc # 0), it succeeded and parse_mgmt_url found no URL, or it found one.
StatusOutcomes == {"err", "nourl", "url"}
\* Exit code classes of an external command.
ExitCodes == {"ok", "fail"}
\* Number of identifiers networks_select_all parses from the listing.
IdCounts == {0, 1, 16}

VARIABLES
    envs,           \* self.envs: the in-memory registry, a sequence of records
    store,          \* content of envs.json: a sequence of records, or Torn
    filtered,       \* self.filtered: the names of the cards on display
    selected_name,  \* self.selected_name
    active_name,    \* self.active_name
    enabled,        \* enabled flag of the action buttons
    pill,           \* text of the status pill
    notice,         \* the message box shown by the last step, or "none"
    queue,          \* signals emitted by workers, not yet delivered
    workers,        \* the worker threads, by slot
    \* One call of networks_select_all, with the cells of its listing:
    sel_pc,         \* position of the call: "off", "list", "select", "done"
    listing,        \* text: output of `netbird networks list`, as lines
    ids,            \* ids: the identifiers parsed, after de-duplication
    issued,         \* the chunks of the select commands issued so far
    ret,            \* the tuple returned: cmd, rc, out
    pumps           \* the threads of _pump_proc_output, by slot

vars == <<envs, store, filtered, selected_name, active_name, enabled, pill,
          notice, queue, workers, sel_pc, listing, ids, issued, ret, pumps>>
regVars == <<envs, store, filtered>>
selVars == <<sel_pc, listing, ids, issued, ret>>

\* A file truncated by open(..., "w") whose json.dump did not finish: content
\* that is no list of environment records.
Torn == <<[torn |-> TRUE]>>

\* ---------------------------------------------------------------- helpers
Env(n, u) == [name |-> n, url |-> u]

NamesOf(s) == [i \in 1..Len(s) |-> s[i].name]

RECURSIVE SelectSeq2(_, _)
\* [e for e in s if e["name"] != n]
SelectSeq2(s, n) ==
    IF s = << >> THEN << >>
    ELSE IF Head(s).name # n THEN <<Head(s)>> \o SelectSeq2(Tail(s), n)
    ELSE SelectSeq2(Tail(s), n)

\* next(e for e in self.envs if e["name"] == n): the index of the first match,
\* 0 when there is none (StopIteration).
FirstByName(s, n) ==
    IF \E i \in 1..Len(s) : s[i].name = n
    THEN CHOOSE i \in 1..Len(s) : s[i].name = n /\ \A j \in 1..(i-1) : s[j].name # n
    ELSE 0

\* A lookup that compares the names as typed.
FirstByExact(s, n) == FirstByName(s, n)

\* next((e for e in self.envs if e["name"].lower() == name.lower()), None)
FirstByLower(s, n) ==
    IF \E i \in 1..Len(s) : Lower(s[i].name) = Lower(n)
    THEN CHOOSE i \in 1..Len(s) :
            /\ Lower(s[i].name) = Lower(n)
            /\ \A j \in 1..(i-1) : Lower(s[j].name) # Lower(n)
    ELSE 0

\* A signal of the UIBus, tagged with the kind of action that emitted it.
Sig(s, a, k) == [sig |-> s, arg |-> a, src |-> k]

IdleWorker ==
    [kind |-> "none", pc |-> "idle", name |-> NoName, st0 |-> "na",
     elapsed |-> 0, polls |-> 0, mgmt |-> FALSE, nids |-> 0, batch |-> 0,
     rc |-> "na"]

\* A worker thread exists from Thread.start() until wrapper() returns.
Running(w) == workers[w].pc # "idle"
RunningSet == {w \in Slots : Running(w)}

\* The slot a new thread takes among the first n: the lowest one not in use.
HasFreeSlot(n) == \E w \in 1..n : ~Running(w)
FreeSlot(n) == CHOOSE w \in 1..n : ~Running(w) /\ \A v \in 1..(w-1) : Running(v)

\* A thread of _pump_proc_output exists from its Thread.start() in work()
\* until the function returns; opened is its local flag and opens counts the
\* xdg-open calls it has made for its stream.
PumpSlots == 1..MaxPumps
IdlePump == [pc |-> "off", opened |-> FALSE, opens |-> 0]
Reading(k) == pumps[k].pc = "reading"
HasFreePump == \E k \in PumpSlots : ~Reading(k)
FreePump == CHOOSE k \in PumpSlots : ~Reading(k) /\ \A j \in 1..(k-1) : Reading(j)

\* bus.<signal>.emit(...) from a worker thread: queued for the main thread.
CanEmit(n) == Len(queue) + n <= MaxQueue

\* No call of networks_select_all is followed cell by cell.
NoRet == [cmd |-> "none", args |-> << >>, rc |-> "na", out |-> << >>]
SelectOff ==
    /\ sel_pc = "off"
    /\ listing = << >>
    /\ ids = << >>
    /\ issued = << >>
    /\ ret = NoRet

\* ------------------------------------------------------------------- Init
\* envs.json as load_envs accepts it at startup.
InitialStores ==
    { << >>,
      <<Env("a", "u1"), Env("b", "u1")>> }

Init ==
    /\ store \in InitialStores
    /\ envs = store
    /\ filtered = NamesOf(envs)
    /\ selected_name = NoName
    /\ active_name = NoName
    /\ enabled = TRUE
    /\ pill = "Ready"
    /\ notice = "none"
    /\ queue = << >>
    /\ workers = [w \in Slots |-> IdleWorker]
    /\ pumps = [k \in PumpSlots |-> IdlePump]
    /\ SelectOff

\* ------------------------------------------------- main thread: signals
\* The slots connected in _wire_bus: _set_pill, _set_active_name and
\* _set_controls_enabled, run for the signal at the head of the queue.
SetPill(text) == pill' = text /\ UNCHANGED <<active_name, enabled>>
SetActiveName(name) == active_name' = name /\ UNCHANGED <<pill, enabled>>
SetControlsEnabled(flag) == enabled' = flag /\ UNCHANGED <<pill, active_name>>

Deliver ==
    /\ queue # << >>
    /\ LET e == Head(queue) IN
        /\ queue' = Tail(queue)
        /\ CASE e.sig = "pill" -> SetPill(e.arg)
             [] e.sig = "set_active" -> SetActiveName(e.arg)
             [] e.sig = "set_enabled" -> SetControlsEnabled(e.arg)
    /\ notice' = "none"
    /\ UNCHANGED <<regVars, selected_name, workers, selVars, pumps>>

\* ------------------------------------------------ main thread: _run_bg
\* set_enabled(False) is emitted from the main thread, so its slot runs at
\* once; then the thread is started (while fewer than n threads exist).
RunBg(kind, name, n) ==
    /\ HasFreeSlot(n)
    /\ enabled' = FALSE
    /\ workers' = [workers EXCEPT ![FreeSlot(n)] =
                      [IdleWorker EXCEPT !.kind = kind, !.pc = "begin",
                                         !.name = name]]

\* on_connect without its `if not self.selected_name` guard.
NoSelectionNeverTaken == FALSE

\* `not self.selected_name`
NoSelection == selected_name = NoName

\* ------------------------------------------- main thread: user actions
\* A handler runs to its return, the message box it shows (info_box,
\* warn_box, ask_yes_no are modal) included; notice names that box for the
\* step that showed it and is "none" after every other step.

\* A click on a card: cards are built from self.filtered and stay clickable
\* whatever the enabled flag of the buttons is.
SelectEnv ==
    /\ \E i \in 1..Len(filtered) : selected_name' = filtered[i]
    /\ notice' = "none"
    /\ UNCHANGED <<regVars, active_name, enabled, pill, queue, workers, selVars, pumps>>

\* on_connect, reached from the Connect button (only while it is enabled) or
\* from the Return shortcut of the window (whatever the buttons' state).
OnConnect(via, n) ==
    /\ via = "button" => enabled
    /\ IF NoSelection
       THEN /\ notice' = "Select"
            /\ UNCHANGED <<enabled, workers>>
       ELSE IF FirstByName(envs, selected_name) = 0
       THEN /\ notice' = "StopIteration"
            /\ UNCHANGED <<enabled, workers>>
       ELSE LET env == envs[FirstByName(envs, selected_name)] IN
            /\ RunBg("connect", env.name, n)
            /\ notice' = "none"
    /\ UNCHANGED <<regVars, selected_name, active_name, pill, queue, selVars, pumps>>

OnDisconnect(n) ==
    /\ enabled
    /\ IF NoSelection
       THEN /\ notice' = "Select"
            /\ UNCHANGED <<enabled, workers>>
       ELSE /\ RunBg("disconnect", NoName, n)
            /\ notice' = "none"
    /\ UNCHANGED <<regVars, selected_name, active_name, pill, queue, selVars, pumps>>

OnStatus(n) ==
    /\ enabled
    /\ RunBg("status", NoName, n)
    /\ notice' = "none"
    /\ UNCHANGED <<regVars, selected_name, active_name, pill, queue, selVars, pumps>>

OnRefreshNetworks(n) ==
    /\ enabled
    /\ RunBg("refresh", NoName, n)
    /\ notice' = "none"
    /\ UNCHANGED <<regVars, selected_name, active_name, pill, queue, selVars, pumps>>

\* ------------------------------------------------ main thread: registry
\* Path.write_text: the file is opened (truncated) and then written.  The
\* call succeeds, fails before the file is touched, or fails after the
\* truncation.
SaveOutcomes == {"ok", "failed", "torn"}

SaveEnvs(new, outcome) ==
    CASE outcome = "ok" -> new
      [] outcome = "failed" -> store
      [] outcome = "torn" -> Torn

\* re.match(r"^https?://", url) on the urls of the model.
BadUrl == "ftp"
ValidUrl(u) == u \in Urls

\* An overwrite that stores the record as typed.
OverwriteAsTyped(s, i, n, u) == [s EXCEPT ![i] = Env(n, u)]

\* exists["management_url"] = url, for the record at index i.
Overwrite(s, i, n, u) == [s EXCEPT ![i].url = u]

\* on_add with the dialog accepted: the name and url typed, the answer to
\* "Overwrite?" and the outcome of save_envs.
OnAdd(names, urls, outcomes) ==
    /\ enabled
    /\ \E n \in names, u \in urls, yes \in BOOLEAN, outcome \in outcomes :
         LET i == FirstByLower(envs, n) IN
         IF ~ValidUrl(u)
         THEN notice' = "Invalid" /\ UNCHANGED regVars
         ELSE IF i # 0 /\ ~yes
         THEN notice' = "Overwrite?" /\ UNCHANGED regVars
         ELSE /\ i = 0 => Len(envs) < MaxEnvs
              /\ envs' = IF i # 0 THEN Overwrite(envs, i, n, u)
                         ELSE Append(envs, Env(n, u))
              /\ store' = SaveEnvs(envs', outcome)
              /\ IF outcome = "ok"
                 THEN filtered' = NamesOf(envs') /\ notice' = "none"
                 ELSE filtered' = filtered /\ notice' = "Save failed"
    /\ UNCHANGED <<selected_name, active_name, enabled, pill, queue, workers,
                   selVars, pumps>>

\* on_edit with the dialog accepted.
OnEdit(urls, outcomes) ==
    /\ enabled
    /\ IF NoSelection
       THEN notice' = "Select" /\ UNCHANGED regVars
       ELSE IF FirstByName(envs, selected_name) = 0
       THEN notice' = "StopIteration" /\ UNCHANGED regVars
       ELSE LET i == FirstByName(envs, selected_name) IN
            \E u \in urls, outcome \in outcomes :
              IF ~ValidUrl(u)
              THEN notice' = "Invalid" /\ UNCHANGED regVars
              ELSE /\ envs' = [envs EXCEPT ![i].url = u]
                   /\ store' = SaveEnvs(envs', outcome)
                   /\ IF outcome = "ok"
                      THEN filtered' = NamesOf(envs') /\ notice' = "none"
                      ELSE filtered' = filtered /\ notice' = "Save failed"
    /\ UNCHANGED <<selected_name, active_name, enabled, pill, queue, workers,
                   selVars, pumps>>

\* on_remove with the confirmation answered Yes.
OnRemove(outcomes) ==
    /\ enabled
    /\ IF NoSelection
       THEN /\ notice' = "Select"
            /\ UNCHANGED <<regVars, selected_name, active_name>>
       ELSE \E outcome \in outcomes :
              /\ envs' = SelectSeq2(envs, selected_name)
              /\ store' = SaveEnvs(envs', outcome)
              /\ IF outcome = "ok"
                 THEN /\ active_name' = IF active_name = selected_name
                                        THEN NoName ELSE active_name
                      /\ selected_name' = NoName
                      /\ filtered' = NamesOf(envs')
                      /\ notice' = "none"
                 ELSE /\ notice' = "Save failed"
                      /\ UNCHANGED <<filtered, selected_name, active_name>>
    /\ UNCHANGED <<enabled, pill, queue, workers, selVars, pumps>>

\* ---------------------------------------------------- worker threads
\* A worker step runs the thread from the return of one blocking external
\* call to the start of the next one (or to the end of wrapper()), with the
\* signals it emits on the way.  It writes no field of the main window.
Emit(sigs) == CanEmit(Len(sigs)) /\ queue' = queue \o sigs

SetWorker(w, rec) == workers' = [workers EXCEPT ![w] = rec]

\* wrapper(): `finally: self.bus.set_enabled.emit(True)`
Finally(kind) == <<Sig("set_enabled", TRUE, kind)>>

\* The end of work(): the last signals, then the finally clause; the thread
\* ends.
Finish(w, sigs) ==
    /\ Emit(sigs \o Finally(workers[w].kind))
    /\ SetWorker(w, IdleWorker)

\* wrapper() without its finally clause: an exception ends the thread and
\* nothing is emitted.
RaiseNoFinally(w) == SetWorker(w, IdleWorker) /\ UNCHANGED queue

\* An exception leaves work(): the finally clause of wrapper() still runs.
Raise(w) == Finish(w, << >>)

\* The first statement of each work(): the transitional pill.
BeginPill(kind) ==
    CASE kind = "connect" -> "Connecting"
      [] kind = "disconnect" -> "Disconnecting"
      [] kind = "status" -> "Checking"
      [] kind = "refresh" -> "Refreshing"

\* The first external call of each work().
FirstCall(kind) ==
    CASE kind = "connect" -> "cn_service"
      [] kind = "disconnect" -> "dc_down"
      [] kind = "status" -> "st_status"
      [] kind = "refresh" -> "rf_list"

Begin(w) ==
    /\ workers[w].pc = "begin"
    /\ Emit(<<Sig("pill", BeginPill(workers[w].kind), workers[w].kind)>>)
    /\ SetWorker(w, [workers[w] EXCEPT !.pc = FirstCall(workers[w].kind)])

\* ---- on_status.work
\* A status action that also clears the active marker when it finds no
\* session.
StatusSignalsClearing(s) ==
    CASE s = "url" -> <<Sig("pill", "Connected", "status")>>
      [] s = "nourl" -> <<Sig("set_active", NoName, "status"),
                          Sig("pill", "Disconnected", "status")>>
      [] s = "err" -> <<Sig("pill", "Error", "status")>>

StatusSignals(s) ==
    CASE s = "url" -> <<Sig("pill", "Connected", "status")>>
      [] s = "nourl" -> <<Sig("pill", "Disconnected", "status")>>
      [] s = "err" -> <<Sig("pill", "Error", "status")>>

StatusWork(w) ==
    /\ workers[w].pc = "st_status"
    /\ \E s \in StatusOutcomes :
         Finish(w, StatusSignals(s))

\* ---- on_disconnect.work
\* A disconnect that clears the active marker only when nb_down succeeded.
DisconnectSignalsOnSuccess(rc) ==
    IF rc = "ok"
    THEN <<Sig("set_active", NoName, "disconnect"),
           Sig("pill", "Disconnected", "disconnect")>>
    ELSE <<Sig("pill", "Error", "disconnect")>>

DisconnectSignals(rc) ==
    <<Sig("set_active", NoName, "disconnect"),
      Sig("pill", IF rc = "ok" THEN "Disconnected" ELSE "Error", "disconnect")>>

DisconnectWork(w) ==
    /\ workers[w].pc = "dc_down"
    /\ \E rc \in ExitCodes :
         Finish(w, DisconnectSignals(rc))

\* ---- on_connect.work
\* A connect that gives up the reset and the launch when the service does
\* not start.
AfterServiceAbort(rc) == IF rc = "ok" THEN "cn_status0" ELSE "cn_drain"

\* Both branches of `if rc == 0` (lines 562-568) fall through to the reset.
AfterService(rc) == "cn_status0"

\* nb_service_start(): its exit code only selects the log lines.
ConnectService(w) ==
    /\ workers[w].pc = "cn_service"
    /\ \E rc \in ExitCodes :
         SetWorker(w, [workers[w] EXCEPT !.pc = AfterService(rc)])
    /\ UNCHANGED queue

\* An early return of _ensure_down_quick that does not test rc0: it returns
\* whenever no URL was parsed.
EnsureDownReturnsNoUrl(s) == s # "url"

\* _ensure_down_quick: `if rc0 == 0 and parse_mgmt_url(out0) is None: return`
EnsureDownReturns(s) == s = "nourl"

\* The status query of _ensure_down_quick; st0 keeps its outcome (rc0, out0)
\* until the next external call returns.
ConnectStatus0(w) ==
    /\ workers[w].pc = "cn_status0"
    /\ \E s \in StatusOutcomes :
         SetWorker(w, [workers[w] EXCEPT
                          !.st0 = s,
                          !.pc = IF EnsureDownReturns(s) THEN "cn_up" ELSE "cn_down"])
    /\ UNCHANGED queue

\* nb_down(), then t_end = time.time() + max_wait and the first test of the
\* while loop.
ConnectDown(w) ==
    /\ workers[w].pc = "cn_down"
    /\ \E rc \in ExitCodes :
         SetWorker(w, [workers[w] EXCEPT !.st0 = "na", !.elapsed = 0,
                                         !.pc = "cn_tdpoll"])
    /\ UNCHANGED queue

Min(a, b) == IF a < b THEN a ELSE b

\* One turn of the while loop of _ensure_down_quick, max_wait tenths of a
\* second long: nb_status takes d tenths of a second; the loop breaks when
\* the session is no longer reported, else it sleeps a step and tests the
\* clock again.
ConnectTeardownPoll(w, max_wait) ==
    /\ workers[w].pc = "cn_tdpoll"
    /\ \E s \in StatusOutcomes, d \in {0, max_wait} :
         LET t == Min(workers[w].elapsed + d + StepTenths, max_wait) IN
         IF s = "url" /\ t < max_wait
         THEN SetWorker(w, [workers[w] EXCEPT !.elapsed = t])
         ELSE SetWorker(w, [workers[w] EXCEPT !.elapsed = 0, !.pc = "cn_up"])
    /\ UNCHANGED queue

\* The outcomes of lines 575-582: nb_up_async returns None, or the process is
\* launched and then Thread.start() of the stream reader raises or succeeds.
UpOutcomes == {"nolaunch", "nothread", "launched"}

\* A launch failure that is not reported.
LaunchFailureSilent == << >>

\* `if not proc:` the pill of lines 577-579.
LaunchFailureReport == <<Sig("pill", "Error", "connect")>>

\* threading.Thread(target=_pump_proc_output, ...).start()
StartPump == pumps' = [pumps EXCEPT ![FreePump] = [IdlePump EXCEPT !.pc = "reading"]]

\* Lines 575-582 with outcome o.  The reader thread it starts is followed
\* (rd) in the specifications that run the steps of the readers; the others
\* follow the worker threads alone.
ConnectUpWith(w, o, rd) ==
    /\ workers[w].pc = "cn_up"
    /\ CASE o = "nolaunch" -> Finish(w, LaunchFailureReport) /\ UNCHANGED pumps
          [] o = "nothread" -> Raise(w) /\ UNCHANGED pumps
          [] o = "launched" ->
                /\ IF rd THEN HasFreePump /\ StartPump ELSE UNCHANGED pumps
                /\ SetWorker(w, [workers[w] EXCEPT !.st0 = "na", !.polls = 0,
                                                   !.mgmt = FALSE, !.pc = "cn_poll"])
                /\ UNCHANGED queue

ConnectUp(w, rd) == \E o \in UpOutcomes : ConnectUpWith(w, o, rd)

\* A confirmation loop without its range: it ends only on a URL.
PollLoopEndsOnUrl(found, n, win) == found

\* `for _ in range(win)` ends after turn n: `if mgmt: break`, or the range is
\* exhausted.
PollLoopEnds(found, n, win) == found \/ n >= win

\* One turn of the confirmation loop: sleep(1), nb_status, and mgmt is set
\* when the status shows a management URL.
ConnectPoll(w, win) ==
    /\ workers[w].pc = "cn_poll"
    /\ \E s \in StatusOutcomes :
         LET n == workers[w].polls + 1
             found == s = "url"
         IN SetWorker(w, [workers[w] EXCEPT
                             !.polls = n,
                             !.mgmt = found,
                             !.pc = IF PollLoopEnds(found, n, win) THEN "cn_drain"
                                    ELSE "cn_poll"])
    /\ UNCHANGED queue

\* The name the worker passes to set_active on confirmation (line 603).
ConnectActiveArg(w) == selected_name

\* A report that treats the unconfirmed connect as a failed one.
ConnectReportIdle(w, mgmt) ==
    IF mgmt
    THEN <<Sig("pill", "Connected", "connect"),
           Sig("set_active", ConnectActiveArg(w), "connect")>>
    ELSE <<Sig("pill", "Disconnected", "connect")>>

\* Lines 601-607.
ConnectReport(w, mgmt) ==
    IF mgmt
    THEN <<Sig("pill", "Connected", "connect"),
           Sig("set_active", ConnectActiveArg(w), "connect")>>
    ELSE <<Sig("pill", "Connected?", "connect")>>

\* A drain that joins the reader threads before the report.
DrainJoinsReader == \A k \in PumpSlots : ~Reading(k)

\* Lines 593-599 wait for no thread: proc.poll() does not block and
\* communicate gives up after 0.25 s.
DrainReady == TRUE

\* After the loop: proc.poll() and communicate(timeout=0.25), whose failure
\* is swallowed, then the report.
ConnectDrain(w) ==
    /\ workers[w].pc = "cn_drain"
    /\ DrainReady
    /\ Finish(w, ConnectReport(w, workers[w].mgmt))

\* ---- on_refresh_networks.work
Batches(n) == (n + BatchSize - 1) \div BatchSize

\* networks_select_all up to its first select command: the listing fails, no
\* identifier is parsed, or there are identifiers to select.  rc keeps the
\* exit code networks_select_all returns to work() (line 507).
RefreshList(w) ==
    /\ workers[w].pc = "rf_list"
    /\ \/ SetWorker(w, [workers[w] EXCEPT !.rc = "fail", !.pc = "rf_refresh"])
       \/ \E n \in IdCounts :
            IF n = 0
            THEN SetWorker(w, [workers[w] EXCEPT !.rc = "fail", !.pc = "rf_refresh"])
            ELSE SetWorker(w, [workers[w] EXCEPT !.nids = n, !.pc = "rf_select"])
    /\ UNCHANGED queue

\* One `netbird networks select` batch; a failing batch ends the selection.
RefreshSelect(w) ==
    /\ workers[w].pc = "rf_select"
    /\ \E rc \in ExitCodes :
         LET b == workers[w].batch + 1 IN
         IF rc = "ok" /\ b < Batches(workers[w].nids)
         THEN SetWorker(w, [workers[w] EXCEPT !.batch = b])
         ELSE SetWorker(w, [workers[w] EXCEPT !.batch = 0, !.nids = 0,
                                              !.rc = rc, !.pc = "rf_refresh"])
    /\ UNCHANGED queue

\* networks_refresh() and the final pill.
RefreshRefresh(w) ==
    /\ workers[w].pc = "rf_refresh"
    /\ \E rc \in ExitCodes :
         Finish(w, <<Sig("pill", IF rc = "ok" THEN "Refreshed" ELSE "Refresh failed",
                         "refresh")>>)

\* Every step of a worker thread; a connect polls the status at most win
\* times for its confirmation and max_wait tenths of a second for its
\* teardown, and its reader thread is followed when rd holds.
WorkerStep(w, win, max_wait, rd) ==
    /\ \/ ConnectUp(w, rd)
       \/ /\ \/ Begin(w)
             \/ StatusWork(w)
             \/ DisconnectWork(w)
             \/ ConnectService(w)
             \/ ConnectStatus0(w)
             \/ ConnectDown(w)
             \/ ConnectTeardownPoll(w, max_wait)
             \/ ConnectPoll(w, win)
             \/ ConnectDrain(w)
             \/ RefreshList(w)
             \/ RefreshSelect(w)
             \/ RefreshRefresh(w)
          /\ UNCHANGED pumps
    /\ notice' = "none"
    /\ UNCHANGED <<regVars, selected_name, active_name, enabled, pill, selVars>>

\* ---------------------------------------------- stream reader threads
\* A reader that opens every URL it reads.
PumpOpensEvery(url, opened) == url

\* `if not opened:` and the search for an https URL in the line.
PumpOpens(url, opened) == url /\ ~opened

\* One turn of `for raw in iter(proc.stdout.readline, '')`: a line with or
\* without an https URL; xdg-open is called, and opened set whether or not
\* the call raised, for the first line with one.
PumpLine(k) ==
    /\ Reading(k)
    /\ \E url \in BOOLEAN :
         IF PumpOpens(url, pumps[k].opened)
         THEN /\ pumps[k].opens < MaxOpens
              /\ pumps' = [pumps EXCEPT ![k].opened = TRUE,
                                        ![k].opens = @ + 1]
         ELSE UNCHANGED pumps

\* readline returns '' (the process exited, the stream was closed) or
\* raises: the function returns.
PumpEnd(k) ==
    /\ Reading(k)
    /\ pumps' = [pumps EXCEPT ![k] = IdlePump]

\* Every step of a stream reader; its log lines are not part of the model.
PumpStep ==
    /\ \E k \in PumpSlots : PumpLine(k) \/ PumpEnd(k)
    /\ notice' = "none"
    /\ UNCHANGED <<regVars, selected_name, active_name, enabled, pill, queue,
                   workers, selVars>>

\* --------------------------------------------------------- specifications
\* The steps of the worker threads with the loops of a connect cut to
\* PollBound confirmation polls and TeardownBound teardown sleeps.
Work == \E w \in Slots : WorkerStep(w, PollBound, TeardownBound * StepTenths, FALSE)

\* The whole program, with at most SpecWorkers worker threads at a time and
\* these inputs to the registry dialogs.
SpecNames == {"b"}
SpecUrls == {"u1", BadUrl}
SpecSaves == {"ok", "failed"}

Next ==
    \/ SelectEnv
    \/ OnConnect("button", SpecWorkers)
    \/ OnConnect("shortcut", SpecWorkers)
    \/ OnDisconnect(SpecWorkers)
    \/ OnStatus(SpecWorkers)
    \/ OnRefreshNetworks(SpecWorkers)
    \/ OnAdd(SpecNames, SpecUrls, SpecSaves)
    \/ OnEdit(SpecUrls, SpecSaves)
    \/ OnRemove(SpecSaves)
    \/ Deliver
    \/ Work

Spec == Init /\ [][Next]_vars

\* The connection actions with up to MaxWorkers worker threads at a time, on
\* the registry as loaded.
NextConcurrent ==
    \/ SelectEnv
    \/ OnConnect("button", MaxWorkers)
    \/ OnConnect("shortcut", MaxWorkers)
    \/ OnDisconnect(MaxWorkers)
    \/ OnStatus(MaxWorkers)
    \/ OnRefreshNetworks(MaxWorkers)
    \/ Deliver
    \/ Work

SpecConcurrent == Init /\ [][NextConcurrent]_vars

\* A started thread runs and every external command returns (run_cmd has a
\* timeout); the event loop of the main thread delivers the queued signals.
Fairness == WF_vars(Deliver) /\ \A w \in Slots :
                WF_vars(WorkerStep(w, PollBound, TeardownBound * StepTenths, FALSE))

FairSpec == Spec /\ Fairness

\* One connect at a time, with the loops of the source: PollWindow
\* confirmation polls and a teardown wait of MaxWaitTenths.  A worker thread
\* waits for no other thread, so its termination is that of a thread alone.
WorkWindow == \E w \in Slots : WorkerStep(w, PollWindow, MaxWaitTenths, FALSE)

NextWindow ==
    \/ SelectEnv
    \/ OnConnect("button", 1)
    \/ OnConnect("shortcut", 1)
    \/ Deliver
    \/ WorkWindow

SpecWindow ==
    /\ Init
    /\ [][NextWindow]_vars
    /\ WF_vars(Deliver)
    /\ \A w \in Slots : WF_vars(WorkerStep(w, PollWindow, MaxWaitTenths, FALSE))

\* One connect at a time together with the stream readers it starts.  The
\* worker thread and the event loop are scheduled fairly; a reader ends only
\* when its process exits or its stream closes, which nothing in the program
\* brings about, so the readers get no fairness.
WorkStream ==
    \E w \in Slots : WorkerStep(w, PollBound, TeardownBound * StepTenths, TRUE)

NextStream ==
    \/ SelectEnv
    \/ OnConnect("button", 1)
    \/ OnConnect("shortcut", 1)
    \/ Deliver
    \/ WorkStream
    \/ PumpStep

SpecStream ==
    /\ Init
    /\ [][NextStream]_vars
    /\ WF_vars(Deliver)
    /\ \A w \in Slots :
          WF_vars(WorkerStep(w, PollBound, TeardownBound * StepTenths, TRUE))

\* ------------------------------------ networks_select_all, cell by cell
\* A line of the listing is the sequence of its columns, as
\* re.split(r"\s{2,}", ...) cuts it; a blank line has none.  A cell reads
\* "ID: <tok>" (key TRUE) or "<tok>" alone.
Cell(key, tok) == [key |-> key, tok |-> tok]

\* The texts of the model: two identifiers, an IPv4 address and a CIDR block.
Tokens == {"net-1", "net-2", "10.0.0.1", "10.0.0.0/24"}
Cells == {Cell(FALSE, t) : t \in Tokens \cup {"ID"}} \cup {Cell(TRUE, t) : t \in Tokens}
\* A column before the ID column.
Filler == Cell(FALSE, "Name")
Lines == {<< >>} \cup {<<c>> : c \in Cells} \cup {<<Filler, c>> : c \in Cells}

\* Number of lines of a listing.
MaxLines == 3
\* Lengths of the listings of distinct identifiers, one "ID: net-<i>" a line.
LongCounts == {15, 16, 32}
KvListing(n) == [i \in 1..n |-> <<Cell(TRUE, "net-" \o ToString(i))>>]
Listings ==
    UNION {[1..k -> Lines] : k \in 0..MaxLines} \cup {KvListing(n) : n \in LongCounts}

\* is_ip, is_cidr on the tokens of the model.
IsIp(tok) == tok \in {"10.0.0.1", "10.0.0.0"}
IsCidr(tok) == tok = "10.0.0.0/24"

\* An exclusion that tests the CIDR shape alone.
ExcludedCidrOnly(tok) == IsCidr(tok)

\* `not is_ip(tok) and not is_cidr(tok)`, negated.
Excluded(tok) == IsIp(tok) \/ IsCidr(tok)

\* m.group(1) of r"\bID:\s*([A-Za-z0-9][A-Za-z0-9_.-]+)\b" on "ID: <tok>": the
\* class has no "/", so the match stops before it.
KvCapture(tok) == IF tok = "10.0.0.0/24" THEN "10.0.0.0" ELSE tok

\* The text of a column.
CellText(c) == IF c.key THEN "ID: " \o c.tok ELSE c.tok

\* c.strip().lower() == "id"
IsIdColumn(c) == CellText(c) \in {"ID", "id"}

\* re.search finds the first "ID: <tok>" of the line; 0 when there is none.
FirstKv(line) ==
    IF \E j \in 1..Len(line) : line[j].key
    THEN CHOOSE j \in 1..Len(line) : line[j].key /\ \A k \in 1..(j-1) : ~line[k].key
    ELSE 0

\* Lines 109-113 for one line.
KvLine(line) ==
    IF FirstKv(line) = 0 THEN << >>
    ELSE LET tok == KvCapture(line[FirstKv(line)].tok) IN
         IF Excluded(tok) THEN << >> ELSE <<tok>>

RECURSIVE KvIds(_)
\* 1) Key-value style lines.
KvIds(lines) ==
    IF lines = << >> THEN << >>
    ELSE KvLine(Head(lines)) \o KvIds(Tail(lines))

\* The first line with a column named ID (0: none), and that column's index.
HeaderLine(lines) ==
    IF \E i \in 1..Len(lines) : \E j \in 1..Len(lines[i]) : IsIdColumn(lines[i][j])
    THEN CHOOSE i \in 1..Len(lines) :
            /\ \E j \in 1..Len(lines[i]) : IsIdColumn(lines[i][j])
            /\ \A k \in 1..(i-1) : \A j \in 1..Len(lines[k]) : ~IsIdColumn(lines[k][j])
    ELSE 0

HeaderIdx(line) ==
    CHOOSE j \in 1..Len(line) :
        IsIdColumn(line[j]) /\ \A k \in 1..(j-1) : ~IsIdColumn(line[k])

\* Lines 130-137 for one line after the header: a blank line is skipped
\* (`continue`), a line with too few columns gives nothing.
RowIds(line, idx) ==
    IF line = << >> THEN << >>
    ELSE IF Len(line) < idx THEN << >>
    ELSE LET tok == CellText(line[idx]) IN
         IF tok \in {"ID", "id"} \/ Excluded(tok) THEN << >> ELSE <<tok>>

RECURSIVE TableRows(_, _)
\* for data in lines[i+1:]
TableRows(lines, idx) ==
    IF lines = << >> THEN << >>
    ELSE RowIds(Head(lines), idx) \o TableRows(Tail(lines), idx)

\* 2) Table header with an 'ID' column.
TableIds(lines) ==
    IF HeaderLine(lines) = 0 THEN << >>
    ELSE TableRows(SubSeq(lines, HeaderLine(lines) + 1, Len(lines)),
                   HeaderIdx(lines[HeaderLine(lines)]))

\* ids before the de-duplication: the table tier runs `if not ids`.
Extracted(lines) == IF KvIds(lines) # << >> THEN KvIds(lines) ELSE TableIds(lines)

RECURSIVE UniqFrom(_, _)
\* Lines 141-144: seen, uniq.
UniqFrom(s, seen) ==
    IF s = << >> THEN << >>
    ELSE IF Head(s) \in seen THEN UniqFrom(Tail(s), seen)
    ELSE <<Head(s)>> \o UniqFrom(Tail(s), seen \cup {Head(s)})

RECURSIVE DedupKeepLast(_)
\* A de-duplication that keeps the last occurrence of an identifier.
DedupKeepLast(s) ==
    IF s = << >> THEN << >>
    ELSE IF \E i \in 2..Len(s) : s[i] = Head(s) THEN DedupKeepLast(Tail(s))
    ELSE <<Head(s)>> \o DedupKeepLast(Tail(s))

Dedup(s) == UniqFrom(s, {})

\* ids at line 145.
ParseIds(lines) == Dedup(Extracted(lines))

\* A chunk one identifier short: ids[i:i+14].
ChunkShort(s, i) == SubSeq(s, i + 1, Min(i + BatchSize - 1, Len(s)))

\* chunk = ids[i:i+15], i counted from 0.
Chunk(s, i) == SubSeq(s, i + 1, Min(i + BatchSize, Len(s)))

\* The fields of the main window, which networks_select_all does not touch.
winVars == <<envs, store, filtered, selected_name, active_name, enabled, pill,
             notice, queue, workers, pumps>>

\* Lines 94-148: the listing command, the parse, and the two early returns.
\* out keeps the identifiers the returned output names.
SelectList ==
    /\ sel_pc = "list"
    /\ \E rc \in ExitCodes :
         IF rc = "fail"
         THEN /\ ret' = [cmd |-> "netbird networks list", args |-> << >>,
                         rc |-> "fail", out |-> << >>]
              /\ sel_pc' = "done"
              /\ ids' = ids
         ELSE /\ ids' = ParseIds(listing)
              /\ IF ids' = << >>
                 THEN /\ ret' = [cmd |-> "parse networks list (IDs)", args |-> << >>,
                                 rc |-> "fail", out |-> << >>]
                      /\ sel_pc' = "done"
                 ELSE /\ ret' = ret
                      /\ sel_pc' = "select"
    /\ UNCHANGED <<listing, issued, winVars>>

\* One turn of `for i in range(0, len(ids), 15)`: the chunk, its command, and
\* the return on a nonzero exit code or after the last chunk.  The output of
\* a failing command is the agent's (it names no identifier the program
\* chose); the last return lists all of ids ("Selected: ...").
SelectBatch ==
    /\ sel_pc = "select"
    /\ LET i == Len(issued) * BatchSize IN
       \E rc \in ExitCodes :
         /\ issued' = Append(issued, Chunk(ids, i))
         /\ IF rc = "fail"
            THEN /\ ret' = [cmd |-> "netbird networks select", args |-> Chunk(ids, i),
                            rc |-> "fail", out |-> << >>]
                 /\ sel_pc' = "done"
            ELSE IF i + BatchSize >= Len(ids)
            THEN /\ ret' = [cmd |-> "netbird networks select <ids>", args |-> << >>,
                            rc |-> "ok", out |-> ids]
                 /\ sel_pc' = "done"
            ELSE UNCHANGED <<ret, sel_pc>>
    /\ UNCHANGED <<listing, ids, winVars>>

\* networks_select_all alone, on every listing of the model.
InitSelect ==
    /\ store = << >>
    /\ envs = << >>
    /\ filtered = << >>
    /\ selected_name = NoName
    /\ active_name = NoName
    /\ enabled = FALSE
    /\ pill = "Refreshing"
    /\ notice = "none"
    /\ queue = << >>
    /\ workers = [w \in Slots |-> IdleWorker]
    /\ pumps = [k \in PumpSlots |-> IdlePump]
    /\ sel_pc = "list"
    /\ listing \in Listings
    /\ ids = << >>
    /\ issued = << >>
    /\ ret = NoRet

NextSelect ==
    \/ SelectList
    \/ SelectBatch

SpecSelect == InitSelect /\ [][NextSelect]_vars

\* ------------------------------------------------- the registry alone
\* What load_envs accepts: any array of records with a name and a url; it
\* compares no names.
LoadableStores ==
    UNION {[1..k -> {Env(n, "u1") : n \in Names}] : k \in 0..MaxEnvs}

InitRegistry ==
    /\ store \in LoadableStores
    /\ envs = store
    /\ filtered = NamesOf(envs)
    /\ selected_name = NoName
    /\ active_name = NoName
    /\ enabled = TRUE
    /\ pill = "Ready"
    /\ notice = "none"
    /\ queue = << >>
    /\ workers = [w \in Slots |-> IdleWorker]
    /\ pumps = [k \in PumpSlots |-> IdlePump]
    /\ SelectOff

\* The registry dialogs with every name, url and save outcome of the model.
NextRegistry ==
    \/ SelectEnv
    \/ OnAdd(Names, Urls \cup {BadUrl}, SaveOutcomes)
    \/ OnEdit(Urls \cup {BadUrl}, SaveOutcomes)
    \/ OnRemove(SaveOutcomes)

SpecRegistry == InitRegistry /\ [][NextRegistry]_vars

\* ------------------------------------------------------- the startup load
\* self.envs before _load_envs_initial has assigned it, and the store when
\* envs.json does not exist.
Unset == <<[unset |-> TRUE]>>
Missing == <<[missing |-> TRUE]>>

\* envs.json at startup: what load_envs accepts, a file that is no JSON, a
\* list with an item that lacks "management_url", or no file.
StartupStores == LoadableStores \cup {Torn, <<[name |-> "a"]>>, Missing}

\* ensure_envs_file: a missing file is created as "[]".
EnsureEnvsFile(s) == IF s = Missing THEN << >> ELSE s

\* load_envs returns: the text is JSON, a list, and every item is a dict
\* with "name" and "management_url".
WellFormed(s) == \A i \in 1..Len(s) : DOMAIN s[i] = {"name", "url"}

\* _load_envs_initial.  When load_envs raises, the warn_box is shown, "[]"
\* is written to envs.json and the registry is empty; notice keeps the
\* first box of the step (the "Empty list" box follows it).
LoadEnvsInitial ==
    /\ envs = Unset
    /\ LET file == EnsureEnvsFile(store) IN
         IF WellFormed(file)
         THEN /\ envs' = file
              /\ store' = file
              /\ notice' = IF file = << >> THEN "Empty list" ELSE "none"
         ELSE /\ envs' = << >>
              /\ store' = << >>
              /\ notice' = "envs.json error"
    /\ filtered' = NamesOf(envs')
    /\ UNCHANGED <<selected_name, active_name, enabled, pill, queue, workers,
                   selVars, pumps>>

\* The constructor before _load_envs_initial, on every file of the model.
InitLoad ==
    /\ store \in StartupStores
    /\ envs = Unset
    /\ filtered = << >>
    /\ selected_name = NoName
    /\ active_name = NoName
    /\ enabled = TRUE
    /\ pill = "Ready"
    /\ notice = "none"
    /\ queue = << >>
    /\ workers = [w \in Slots |-> IdleWorker]
    /\ pumps = [k \in PumpSlots |-> IdlePump]
    /\ SelectOff

\* The load, and the registry dialogs once the window is built.
NextLoad ==
    \/ LoadEnvsInitial
    \/ envs # Unset /\ NextRegistry

SpecLoad == InitLoad /\ [][NextLoad]_vars

\* ------------------------------------------------------------ properties
\* The signals a step appends to the queue (for the steps of worker threads,
\* which only append).
NewSignals == SubSeq(queue', Len(queue) + 1, Len(queue'))

\* Slot w takes a step of its worker thread.
Steps(w) == Running(w) /\ workers'[w] # workers[w]

\* The main thread delivers the signal at the head of the queue.
Delivers == queue # << >> /\ queue' = Tail(queue)

\* C1: in every reachable state at most one background action worker is
\* running.
C1_AtMostOneWorker == Cardinality(RunningSet) <= 1

\* C2: whenever a worker thread ends, on any path, the last signal it has
\* emitted is set_enabled(True); a queued set_enabled(True) is eventually
\* delivered, so that after any action has started the enabled flag is
\* eventually true again.
C2_EnabledRestored ==
    /\ [][\A w \in Slots :
            (Running(w) /\ workers'[w].pc = "idle") =>
                /\ Len(queue') > 0
                /\ queue'[Len(queue')] = Sig("set_enabled", TRUE, workers[w].kind)]_vars
    /\ \A w \in Slots : Running(w) ~> enabled
    /\ (\E i \in 1..Len(queue) : queue[i].sig = "set_enabled") ~> enabled

C2_Witness ==
    /\ enabled
    /\ pill = "Connecting"
    /\ \A w \in Slots : ~Running(w)

\* C3: on_connect with no environment selected shows the "Select" box and
\* does nothing else: no worker is started, no signal is emitted, and the
\* enabled flag, the active name and the selection are unchanged; no connect
\* worker ever starts while nothing is selected.
C3_NoSelectionConnect ==
    [][selected_name = NoName =>
          /\ \A w \in Slots :
                workers'[w].kind = "connect" => workers[w].kind = "connect"
          /\ (\E via \in {"button", "shortcut"} : OnConnect(via, MaxWorkers)) =>
                /\ notice' = "Select"
                /\ UNCHANGED <<workers, queue, enabled, active_name,
                               selected_name, pill>>]_vars

C3_Witness ==
    /\ notice = "Select"
    /\ selected_name = NoName
    /\ ~enabled

\* C4: a connect whose confirmation polls never yield a management URL
\* reaches its report only after the whole poll window of PollWindow polls
\* and then emits the pill "Connected?" and the re-enable, and nothing else:
\* no set_active, no "Disconnected" pill, no exception.
C4_Unconfirmed ==
    [][\A w \in Slots :
          (workers[w].pc = "cn_drain" /\ ~workers[w].mgmt /\ Steps(w)) =>
              /\ workers[w].polls = PollWindow
              /\ NewSignals = <<Sig("pill", "Connected?", "connect"),
                                Sig("set_enabled", TRUE, "connect")>>]_vars

C4_Witness ==
    /\ pill = "Connected?"
    /\ active_name = NoName
    /\ enabled
    /\ queue = << >>

\* C5: a confirmed connect passes to set_active the name of the environment
\* that was selected when on_connect was invoked.
C5_ActiveIsRequested ==
    [][\A w \in Slots :
          (workers[w].pc = "cn_drain" /\ workers[w].mgmt /\ Steps(w)) =>
              \E i \in 1..Len(NewSignals) :
                  /\ NewSignals[i].sig = "set_active"
                  /\ NewSignals[i].arg = workers[w].name]_vars

\* C6: while the pill reports a state other than Connected (Disconnected,
\* Error or the unconfirmed "Connected?"), the active environment name is
\* none.
C6_ActiveOnlyWhenConnected ==
    pill \in {"Disconnected", "Error", "Connected?"} => active_name = NoName

\* C7: when nb_down returns, whatever its exit code, the disconnect worker
\* emits set_active(None) before its final pill, and the delivery of that
\* signal leaves the active name none.
C7_DisconnectClears ==
    [][/\ \A w \in Slots :
            (workers[w].pc = "dc_down" /\ Steps(w)) =>
                /\ Len(NewSignals) >= 2
                /\ NewSignals[1] = Sig("set_active", NoName, "disconnect")
                /\ NewSignals[2].sig = "pill"
                /\ NewSignals[2].arg \in {"Disconnected", "Error"}
       /\ (Delivers /\ Head(queue).sig = "set_active"
                    /\ Head(queue).src = "disconnect") =>
                active_name' = NoName]_vars

C7_Witness ==
    /\ active_name = NoName
    /\ queue # << >>
    /\ Head(queue) = Sig("pill", "Error", "disconnect")

\* C8: the status action leaves the active name, the selection and the
\* registry alone: its worker emits only pill and set_enabled signals, and
\* neither its steps nor the delivery of its signals change them.
C8_StatusPure ==
    [][/\ \A w \in Slots :
            (workers[w].kind = "status" /\ Steps(w)) =>
                /\ UNCHANGED <<active_name, selected_name, envs, store>>
                /\ \A i \in 1..Len(NewSignals) :
                      NewSignals[i].sig \in {"pill", "set_enabled"}
       /\ (Delivers /\ Head(queue).src = "status") =>
                UNCHANGED <<active_name, selected_name, envs, store>>]_vars

C8_Witness ==
    /\ active_name # NoName
    /\ pill = "Disconnected"
    /\ \A w \in Slots : ~Running(w)

\* C9: a connect always terminates: the teardown loop stays below its
\* ceiling max_wait, the confirmation loop makes at most PollWindow polls
\* and stops at the first one that yields a management URL.
C9_ConnectTerminates ==
    /\ [](\A w \in Slots :
            /\ workers[w].polls <= PollWindow
            /\ workers[w].elapsed < MaxWaitTenths
            /\ workers[w].pc = "cn_poll" =>
                  ~workers[w].mgmt /\ workers[w].polls < PollWindow
            /\ workers[w].pc = "cn_drain" =>
                  workers[w].mgmt \/ workers[w].polls = PollWindow)
    /\ \A w \in Slots : Running(w) ~> ~Running(w)

C9_Witness ==
    \E w \in Slots :
        /\ workers[w].pc = "cn_drain"
        /\ workers[w].polls = PollWindow
        /\ ~workers[w].mgmt

\* C10: the teardown command of a connect is running only if the status
\* query before it detected a management URL.
C10_DownOnlyIfUrl ==
    \A w \in Slots : workers[w].pc = "cn_down" => workers[w].st0 = "url"

\* C10 (amended): the teardown command is skipped exactly when the status
\* query succeeded and showed no management URL; it is issued when a URL was
\* detected and also when the status command failed.
C10_DownUnlessNoUrl ==
    \A w \in Slots :
        /\ workers[w].pc = "cn_down" => workers[w].st0 \in {"url", "err"}
        /\ (workers[w].pc = "cn_up" /\ workers[w].st0 # "na") =>
              workers[w].st0 = "nourl"

C10_Witness ==
    \E w \in Slots : workers[w].pc = "cn_down" /\ workers[w].st0 = "err"

\* C11: the refresh command of the network-refresh action runs only after a
\* select phase that succeeded: not after a failed listing, a listing with no
\* identifiers, or a failed select batch.
C11_RefreshOnlyAfterSelect ==
    \A w \in Slots : workers[w].pc = "rf_refresh" => workers[w].rc = "ok"

RECURSIVE Concat(_)
\* The chunks of a sequence of commands, one after the other.
Concat(chunks) ==
    IF chunks = << >> THEN << >> ELSE Head(chunks) \o Concat(Tail(chunks))

\* C12: when every select command succeeds, the commands issued for n
\* identifiers are ceil(n / BatchSize) in number, each but the last has
\* BatchSize identifiers, the last has between 1 and BatchSize, and the
\* chunks in issue order, concatenated, are the identifier list.
C12_Batches ==
    (sel_pc = "done" /\ ret.rc = "ok") =>
        /\ Len(issued) * BatchSize >= Len(ids)
        /\ (Len(issued) - 1) * BatchSize < Len(ids)
        /\ \A k \in 1..(Len(issued) - 1) : Len(issued[k]) = BatchSize
        /\ Len(issued[Len(issued)]) \in 1..BatchSize
        /\ Concat(issued) = ids

C12_Witness ==
    /\ sel_pc = "done"
    /\ ret.rc = "ok"
    /\ Len(ids) = 32
    /\ Len(issued) = 3
    /\ Len(issued[1]) = 15
    /\ Len(issued[2]) = 15
    /\ Len(issued[3]) = 2

\* The identifiers a returned tuple names: those quoted in its command and
\* those listed in its output.
Named(r) == {r.args[j] : j \in 1..Len(r.args)} \cup {r.out[j] : j \in 1..Len(r.out)}

\* C13: when select batch k fails, the call has issued batches 1..k and no
\* other (a prefix of the identifier list, in order), and what it returns
\* reports the failing command with its exit code together with the prefix
\* already applied, the identifiers of batches 1..k-1.
C13_FailureReportsPrefix ==
    (sel_pc = "done" /\ ret.cmd = "netbird networks select") =>
        /\ ret.rc = "fail"
        /\ ret.args = issued[Len(issued)]
        /\ Concat(issued) = SubSeq(ids, 1, Len(Concat(issued)))
        /\ \A k \in 1..(Len(issued) - 1) :
              \A j \in 1..Len(issued[k]) : issued[k][j] \in Named(ret)

\* C14: for every listing, whichever tier extracted the identifiers, no
\* identifier parsed or passed to a select command has the shape of an IPv4
\* address or of a CIDR block.
C14_NoAddressSelected ==
    /\ \A j \in 1..Len(ids) : ~IsIp(ids[j]) /\ ~IsCidr(ids[j])
    /\ \A k \in 1..Len(issued) :
          \A j \in 1..Len(issued[k]) : ~IsIp(issued[k][j]) /\ ~IsCidr(issued[k][j])

C14_Witness ==
    /\ sel_pc = "done"
    /\ listing = << <<Cell(TRUE, "10.0.0.0/24")>>, <<Cell(TRUE, "net-1")>>,
                    <<Cell(TRUE, "10.0.0.1")>> >>
    /\ issued = << <<"net-1">> >>
    /\ ret.rc = "ok"

\* The listing up to the end of its table: the lines before the first blank
\* line that follows the header (all of it when there is none).
UpToTableEnd(lines) ==
    IF \E b \in (HeaderLine(lines) + 1)..Len(lines) : lines[b] = << >>
    THEN SubSeq(lines, 1,
                (CHOOSE b \in (HeaderLine(lines) + 1)..Len(lines) :
                    /\ lines[b] = << >>
                    /\ \A c \in (HeaderLine(lines) + 1)..(b - 1) : lines[c] # << >>) - 1)
    ELSE lines

\* C15: in the table tier the rows contribute identifiers only until the
\* table ends: the identifiers parsed are those of the listing cut at the
\* first blank line after the header, so a data line after that blank line
\* contributes none.
C15_TableEndsAtBlank ==
    (sel_pc \in {"select", "done"} /\ ret.cmd # "netbird networks list"
        /\ KvIds(listing) = << >> /\ HeaderLine(listing) # 0) =>
            ids = ParseIds(UpToTableEnd(listing))

\* The index of the first occurrence of x in s.
FirstIndex(s, x) == CHOOSE i \in 1..Len(s) : s[i] = x /\ \A j \in 1..(i-1) : s[j] # x

\* C16: the identifier list parsed has no duplicates, holds exactly the
\* identifiers extracted, and lists them in the order of their first
\* occurrence in the extracted sequence.
C16_DedupFirstSeen ==
    (sel_pc \in {"select", "done"} /\ ret.cmd # "netbird networks list") =>
        /\ \A i, j \in 1..Len(ids) : i # j => ids[i] # ids[j]
        /\ {ids[i] : i \in 1..Len(ids)}
               = {Extracted(listing)[i] : i \in 1..Len(Extracted(listing))}
        /\ \A i, j \in 1..Len(ids) :
              i < j => FirstIndex(Extracted(listing), ids[i])
                          < FirstIndex(Extracted(listing), ids[j])

C16_Witness ==
    /\ sel_pc = "select"
    /\ Extracted(listing) = <<"net-1", "net-2", "net-1">>
    /\ ids = <<"net-1", "net-2">>

\* C17: in every reachable state of the registry no two records have names
\* that are equal when compared case-insensitively.
C17_UniqueNames ==
    \A i, j \in 1..Len(envs) : i # j => Lower(envs[i].name) # Lower(envs[j].name)

\* The registry holds a record whose name equals n case-insensitively.
Exists(n) == \E i \in 1..Len(envs) : Lower(envs[i].name) = Lower(n)

\* C18: an add whose name already exists case-insensitively either is
\* rejected with the "Overwrite?" notice, and then the registry in memory,
\* the persisted store and the cards are unchanged, or (confirmed) keeps the
\* number of records; the notice is shown for no other add.
C18_DuplicateAddRejected ==
    [][\A n \in Names, u \in Urls :
          OnAdd({n}, {u}, SaveOutcomes) =>
              /\ Exists(n) =>
                    \/ notice' = "Overwrite?" /\ UNCHANGED <<envs, store, filtered>>
                    \/ notice' # "Overwrite?" /\ Len(envs') = Len(envs)
              /\ notice' = "Overwrite?" => Exists(n)]_vars

C18_Witness ==
    /\ notice = "Overwrite?"
    /\ envs = <<Env("a", "u1")>>
    /\ store = envs
    /\ filtered = NamesOf(envs)

\* C19: an add with confirmed overwrite replaces only the url of the first
\* record with that name: the number of records, their order, every name
\* with its casing and every other url are unchanged.
C19_OverwriteInPlace ==
    [][\A n \in Names, u \in Urls :
          (OnAdd({n}, {u}, SaveOutcomes) /\ Exists(n) /\ notice' # "Overwrite?") =>
              /\ Len(envs') = Len(envs)
              /\ NamesOf(envs') = NamesOf(envs)
              /\ \A i \in 1..Len(envs) :
                    envs'[i].url = IF i = FirstByLower(envs, n) THEN u ELSE envs[i].url]_vars

C19_Witness ==
    /\ selected_name = NoName
    /\ envs = <<Env("a", "u2"), Env("A", "u1")>>
    /\ store = envs
    /\ notice = "none"

\* C20: after every completed add, edit or remove, one whose save failed
\* included, the persisted store equals the registry in memory, record by
\* record in the same order.
C20_StoreIsRegistry == store = envs

\* C21: save_envs is all-or-nothing: after any step, one whose save was
\* interrupted included, the store holds the complete previous content or
\* the complete new registry.
C21_SaveAllOrNothing == [][store' = store \/ store' = envs']_vars

\* C22: no failure is silent: a worker thread that ends after a failure of
\* its action (the launch of `netbird up` failed or an exception left
\* work() at that point; the select phase of a network refresh failed) has
\* emitted, in its last step, a pill that reflects the failure.
C22_NoSilentFailure ==
    [][\A w \in Slots :
          (/\ Steps(w)
           /\ workers'[w].pc = "idle"
           /\ \/ workers[w].pc = "cn_up"
              \/ workers[w].pc = "rf_refresh" /\ workers[w].rc = "fail") =>
              \E i \in 1..Len(NewSignals) :
                  /\ NewSignals[i].sig = "pill"
                  /\ NewSignals[i].arg \in {"Error", "Refresh failed"}]_vars

\* C23: when the launch of `netbird up` fails, the connect worker emits the
\* pill "Error" and then the re-enable, and ends: no reader thread is
\* started, no confirmation poll is made and no set_active is emitted, so
\* the active name is unchanged.
C23_LaunchFailure ==
    [][\A w \in Slots :
          ConnectUpWith(w, "nolaunch", TRUE) =>
              /\ NewSignals = <<Sig("pill", "Error", "connect"),
                                Sig("set_enabled", TRUE, "connect")>>
              /\ workers'[w].pc = "idle"
              /\ workers'[w].polls = 0
              /\ UNCHANGED <<pumps, active_name>>]_vars

C23_Witness ==
    /\ queue = <<Sig("pill", "Error", "connect"),
                 Sig("set_enabled", TRUE, "connect")>>
    /\ \A w \in Slots : ~Running(w)
    /\ \A k \in PumpSlots : ~Reading(k)
    /\ pill = "Connecting"
    /\ active_name = NoName

\* C24: a connect worker issues its external commands in a fixed order:
\* service start, the status query of the teardown step, the teardown and
\* its polls when issued, the launch of `netbird up`, the confirmation
\* polls; the service start, whatever its exit code, is always followed by
\* the status query, and no later command is reached by skipping one.
C24_CommandOrder ==
    [][\A w \in Slots :
          (workers[w].kind = "connect" /\ Steps(w)) =>
              workers'[w].pc \in
                  CASE workers[w].pc = "begin" -> {"cn_service"}
                    [] workers[w].pc = "cn_service" -> {"cn_status0"}
                    [] workers[w].pc = "cn_status0" -> {"cn_down", "cn_up"}
                    [] workers[w].pc = "cn_down" -> {"cn_tdpoll"}
                    [] workers[w].pc = "cn_tdpoll" -> {"cn_tdpoll", "cn_up"}
                    [] workers[w].pc = "cn_up" -> {"cn_poll", "idle"}
                    [] workers[w].pc = "cn_poll" -> {"cn_poll", "cn_drain"}
                    [] workers[w].pc = "cn_drain" -> {"idle"}]_vars

C24_Witness ==
    \E w \in Slots :
        /\ workers[w].kind = "connect"
        /\ workers[w].pc = "cn_poll"
        /\ workers[w].polls = 1

\* C25: a stream reader calls xdg-open at most once for its stream: once
\* its flag opened is set, no later line adds a call, whether or not the
\* poller of the connect has confirmed the connection.
C25_OpenAtMostOnce ==
    \A k \in PumpSlots :
        /\ pumps[k].opens <= 1
        /\ pumps[k].opened <=> pumps[k].opens = 1

C25_Witness ==
    /\ \E k \in PumpSlots : Reading(k) /\ pumps[k].opened /\ pumps[k].opens = 1
    /\ \A w \in Slots : ~Running(w)
    /\ pill = "Connected"

\* C26: the poller and the stream reader of a connect end independently:
\* the steps of the poller leave the readers alone and the steps of a reader
\* leave the workers, the queue and the enabled flag alone; a reader that
\* reads can end in every state, whatever the worker does; and the worker
\* ends, after which the controls are enabled again, also when the reader
\* never ends.
C26_IndependentEnd ==
    /\ [][/\ \A w \in Slots :
               (Steps(w) /\ workers[w].pc \in {"cn_poll", "cn_drain"}) =>
                   UNCHANGED pumps
          /\ (\E k \in PumpSlots : Reading(k) /\ pumps'[k] # pumps[k]) =>
                   UNCHANGED <<workers, queue, enabled>>]_vars
    /\ [](\A k \in PumpSlots : Reading(k) => ENABLED PumpEnd(k))
    /\ \A w \in Slots : Running(w) ~> (~Running(w) /\ enabled)

C26_Witness ==
    /\ \E k \in PumpSlots : Reading(k)
    /\ \A w \in Slots : ~Running(w)
    /\ enabled
    /\ queue = << >>
    /\ pill = "Connected?"

\* C27: in every reachable state the selected name is none or the name of a
\* record of the registry in memory, so that on_connect and on_edit find the
\* record they look up.
C27_SelectionInRegistry ==
    selected_name = NoName \/ \E i \in 1..Len(envs) : envs[i].name = selected_name

\* C28: while a worker thread is running, the enabled flag of the buttons is
\* false.
C28_DisabledWhileRunning == RunningSet # {} => ~enabled

\* C29: once every worker thread has ended and its signals are delivered,
\* the pill does not show a transitional value: every path through an
\* action ends with a final pill.
C29_FinalPill ==
    (RunningSet = {} /\ queue = << >>) =>
        pill \notin {"Connecting", "Disconnecting", "Checking", "Refreshing"}

\* C30: the startup load loses no stored data: when envs.json exists and is
\* not a well-formed list of records, the load reports the error and leaves
\* the content of the file unchanged.
C30_LoadKeepsStore ==
    [][(LoadEnvsInitial /\ store # Missing /\ ~WellFormed(store)) =>
          /\ notice' = "envs.json error"
          /\ store' = store]_vars

====
